---- MODULE Spec2Model ----
(***************************************************************************)
(* A model of src/index.ts of react-analyzer-mcp: the tool-call handler,   *)
(* the project enumerator, the recursive directory scanner, the file       *)
(* analyzer wrapper, the markdown renderer and the prop type formatter.    *)
(*                                                                         *)
(* Representation.                                                         *)
(*   - A JavaScript string is a sequence of atoms.  An atom is a piece of  *)
(*     text the code never looks inside; a dot is always an atom of its    *)
(*     own, so that startsWith(".") and endsWith(".tsx") are prefix and    *)
(*     suffix tests on the sequence.  Template literals and += are         *)
(*     concatenation (\o).                                                 *)
(*   - A path is a sequence of segment names (each name a string); the     *)
(*     absolute root "/" is the empty sequence.                            *)
(*   - An optional field of a JavaScript object is a sequence of length 0  *)
(*     (absent) or 1 (present).                                            *)
(*   - A call that may throw returns [threw, value].                       *)
(***************************************************************************)
EXTENDS Integers, Sequences, FiniteSets, TLC

VARIABLES
    fs,          \* the file system the call runs on: one of FileSystems
    unlistable,  \* the directories whose listing fails
    request,     \* the tool-call request being handled
    pc,          \* position of the handler
    folderPath,  \* listReactFiles: the scan root
    stack,       \* scanDirectory: the active calls, innermost last
    reactFiles,  \* listReactFiles: the files collected so far
    listed,      \* history: the paths handed to fs.readdirSync, in order
    fileIdx,     \* generateProjectDocs: index of the next file
    markdown,    \* generateProjectDocs: the document built so far
    analyzed,    \* history: the paths handed to analyzeReactFileContents
    outcomes,    \* history: what reading and analyzing each of them gave
    result,      \* the handler's result or the error it raised
    descriptor,  \* rendering: the analysis under rendering
    rendered     \* rendering: the outputs computed for it

vars == <<fs, unlistable, request, pc, folderPath, stack, reactFiles, listed,
          fileIdx, markdown, analyzed, outcomes, result, descriptor, rendered>>

----------------------------------------------------------------------------
(* Strings *)

None == <<>>

Some(v) == <<v>>

IsPrefix(p, s) == Len(p) <= Len(s) /\ SubSeq(s, 1, Len(p)) = p

\* String.prototype.startsWith
StartsWith(s, p) == IsPrefix(p, s)

\* String.prototype.endsWith
EndsWith(s, suf) ==
    Len(suf) <= Len(s) /\ SubSeq(s, Len(s) - Len(suf) + 1, Len(s)) = suf

\* JavaScript truthiness of an optional string field: present and non-empty.
TruthyStr(opt) == Len(opt) = 1 /\ Len(opt[1]) > 0

\* JavaScript truthiness of an optional object or array field: present.
TruthyObj(opt) == Len(opt) = 1

BQ == "BACKTICK"

CHECK_MARK == "CHECK"

CROSS_MARK == "CROSS"

RECURSIVE Flatten(_)
\* The concatenation of a sequence of strings.
Flatten(ss) == IF ss = <<>> THEN <<>> ELSE Head(ss) \o Flatten(Tail(ss))

----------------------------------------------------------------------------
(* Paths: the functions of node's path module the code calls *)

DOT == <<".">>

DOTDOT == <<".", ".">>

PROJECT_ROOT == << <<"Users">>, <<"azer">>, <<"code">> >>

RECURSIVE NormalizeFrom(_, _)
\* path.normalize of an absolute path: empty and "." segments are dropped and
\* ".." removes the segment before it (at "/" it is dropped).
NormalizeFrom(done, segs) ==
    IF segs = <<>> THEN done
    ELSE LET s == Head(segs) IN
         IF s = <<>> \/ s = DOT THEN NormalizeFrom(done, Tail(segs))
         ELSE IF s = DOTDOT
              THEN NormalizeFrom(IF done = <<>> THEN <<>>
                                 ELSE SubSeq(done, 1, Len(done) - 1), Tail(segs))
              ELSE NormalizeFrom(Append(done, s), Tail(segs))

\* path.join(base, sub) for an absolute base.
PathJoin(base, segs) == NormalizeFrom(<<>>, base \o segs)

\* path.basename
Basename(p) == IF p = <<>> THEN <<>> ELSE p[Len(p)]

RECURSIVE CommonLen(_, _)
CommonLen(a, b) ==
    IF a = <<>> \/ b = <<>> \/ Head(a) # Head(b) THEN 0
    ELSE 1 + CommonLen(Tail(a), Tail(b))

\* path.relative(from, to) for two normalized absolute paths.
PathRelative(from, to) ==
    LET k == CommonLen(from, to) IN
    [i \in 1..(Len(from) - k) |-> DOTDOT] \o SubSeq(to, k + 1, Len(to))

RECURSIVE PathText(_)
\* A relative path as a string: its segments joined by "/".
PathText(p) ==
    IF p = <<>> THEN <<>>
    ELSE IF Len(p) = 1 THEN p[1]
    ELSE p[1] \o <<"/">> \o PathText(Tail(p))

----------------------------------------------------------------------------
(* The file system the code reads through fs.readdirSync and fs.readFileSync *)

Name(stem, ext) == <<stem, ".", ext>>

Hidden(stem) == <<".", stem>>

\* A directory entry as fs.readdirSync(..., {withFileTypes: true}) gives it;
\* target is where a symbolic link points.
Dir(name) == [name |-> name, kind |-> "dir", target |-> <<>>]

File(name) == [name |-> name, kind |-> "file", target |-> <<>>]

Link(name, target) == [name |-> name, kind |-> "symlink", target |-> target]

HOME == << <<"Users">>, <<"azer">> >>

ProjP == Append(PROJECT_ROOT, <<"p">>)

ProjPSrc == Append(ProjP, <<"src">>)

\* One tree: react files before, inside and after a subdirectory, a link back
\* to an ancestor, a link named like a react file, a hidden directory.
FsA ==
    (<<>> :> << Dir(<<"Users">>) >>)
    @@ (<< <<"Users">> >> :> << Dir(<<"azer">>) >>)
    @@ (HOME :> << File(Name("S", "tsx")), Dir(<<"code">>) >>)
    @@ (PROJECT_ROOT :> << Dir(<<"p">>), File(Name("README", "md")),
                           Dir(Hidden("git")), Link(<<"lnk">>, ProjP),
                           Dir(<<"q">>) >>)
    @@ (ProjP :> << File(Name("A", "tsx")), Dir(<<"src">>),
                    File(Name("B", "jsx")), Link(<<"up">>, ProjP),
                    Link(Name("L", "tsx"), Append(ProjP, Name("A", "tsx"))),
                    File(Name("n", "ts")) >>)
    @@ (ProjPSrc :> << File(Name("C", "tsx")) >>)
    @@ (Append(PROJECT_ROOT, Hidden("git")) :> << File(<<"tsx">>) >>)
    @@ (Append(PROJECT_ROOT, <<"q">>) :> << >>)

\* Another enumeration order, a directory named like a react file, a hidden
\* react file.
FsB ==
    (<<>> :> << Dir(<<"Users">>) >>)
    @@ (<< <<"Users">> >> :> << Dir(<<"azer">>) >>)
    @@ (HOME :> << Dir(<<"code">>) >>)
    @@ (PROJECT_ROOT :> << Dir(Hidden("cache")), File(<<"q">>), Dir(<<"p">>) >>)
    @@ (ProjP :> << Dir(<<"src">>), File(Name("B", "jsx")),
                    File(Name("A", "tsx")) >>)
    @@ (ProjPSrc :> << Dir(Name("d", "tsx")), File(Hidden("jsx")) >>)
    @@ (Append(ProjPSrc, Name("d", "tsx")) :>
            << File(<<"C", ".", "tsx", ".", "bak">>), File(Name("E", "jsx")) >>)
    @@ (Append(PROJECT_ROOT, Hidden("cache")) :> << File(Name("H", "jsx")) >>)

FileSystems == {"A", "B"}

\* The directories of the file system, each with its listing in enumeration
\* order.
Listing == IF fs = "A" THEN FsA ELSE FsB

UnlistableCandidates == {PROJECT_ROOT, ProjP, ProjPSrc}

\* The entry of directory d named n, as a sequence of at most one entry.
Lookup(d, n) == SelectSeq(Listing[d], LAMBDA e : e.name = n)

RECURSIVE ResolveFrom(_, _)
\* The directory a path names, following symbolic links, or None.
ResolveFrom(cur, segs) ==
    IF segs = <<>> THEN Some(cur)
    ELSE LET es == Lookup(cur, Head(segs)) IN
         IF es = <<>> THEN None
         ELSE IF es[1].kind = "dir"
              THEN ResolveFrom(Append(cur, Head(segs)), Tail(segs))
         ELSE IF es[1].kind = "symlink" /\ es[1].target \in DOMAIN Listing
              THEN ResolveFrom(es[1].target, Tail(segs))
         ELSE None

Resolve(p) == ResolveFrom(<<>>, p)

\* fs.readdirSync(p, {withFileTypes: true}): the listing, or a throw.
ReaddirSync(p) ==
    LET r == Resolve(p) IN
    IF r = None \/ r[1] \in unlistable
    THEN [threw |-> TRUE, value |-> <<>>]
    ELSE [threw |-> FALSE, value |-> Listing[r[1]]]

\* A test that follows symbolic links, as fs.statSync(...).isDirectory() does.
IsDirectoryFollowingLinks(entry) ==
    \/ entry.kind = "dir"
    \/ entry.kind = "symlink" /\ entry.target \in DOMAIN Listing

\* Dirent.isDirectory
IsDirectory(entry) == entry.kind = "dir"

\* Dirent.isFile
IsFile(entry) == entry.kind = "file"

JSX == <<".", "jsx">>

TSX == <<".", "tsx">>

----------------------------------------------------------------------------
(* The values the external analyzer returns (typed any in the code) *)

\* An analysis result: null, or an object with an optional components array.
NullAnalysis == [isNull |-> TRUE, components |-> None]

Analysis(components) == [isNull |-> FALSE, components |-> components]

\* An element of components: null, or {name, wrapperFn?, props?}; props is
\* the prop map as its entries in iteration order.
NullComponent == [isNull |-> TRUE, name |-> <<>>, wrapperFn |-> None, props |-> None]

Component(name, wrapperFn, props) ==
    [isNull |-> FALSE, name |-> name, wrapperFn |-> wrapperFn, props |-> props]

PropEntry(name, details) == [name |-> name, details |-> details]

\* A prop descriptor: null, or {type, optional, defaultValue?, elementType?,
\* props?, typeName?}.
NullDetails ==
    [isNull |-> TRUE, type |-> <<>>, optional |-> FALSE, defaultValue |-> None,
     elementType |-> None, props |-> None, typeName |-> None]

Details(type, optional, defaultValue, elementType, props, typeName) ==
    [isNull |-> FALSE, type |-> type, optional |-> optional,
     defaultValue |-> defaultValue, elementType |-> elementType,
     props |-> props, typeName |-> typeName]

Returned(v) == [threw |-> FALSE, value |-> v]

Thrown == [threw |-> TRUE, value |-> <<>>]

----------------------------------------------------------------------------
(* formatPropType and generateComponentMarkdown *)

CodeSpan(s) == <<BQ>> \o s \o <<BQ>>

\* The element type named by its type alone, without the recursive call.
formatPropTypeShallow(propDetails) ==
    IF propDetails.isNull THEN Thrown
    ELSE IF propDetails.type = <<"array">> /\ TruthyObj(propDetails.elementType)
    THEN Returned(propDetails.type \o <<"<">>
                  \o CodeSpan(propDetails.elementType[1].type) \o <<">">>)
    ELSE IF propDetails.type = <<"object">> /\ TruthyObj(propDetails.props)
    THEN Returned(IF TruthyStr(propDetails.typeName)
                  THEN CodeSpan(propDetails.typeName[1])
                  ELSE CodeSpan(<<"object">>))
    ELSE IF propDetails.type = <<"function">>
    THEN Returned(CodeSpan(<<"function">>))
    ELSE Returned(CodeSpan(propDetails.type))

RECURSIVE formatPropType(_)
\* Destructuring null throws; otherwise the four rules in order.
formatPropType(propDetails) ==
    IF propDetails.isNull THEN Thrown
    ELSE IF propDetails.type = <<"array">> /\ TruthyObj(propDetails.elementType)
    THEN LET inner == formatPropType(propDetails.elementType[1]) IN
         IF inner.threw THEN Thrown
         ELSE Returned(propDetails.type \o <<"<">> \o inner.value \o <<">">>)
    ELSE IF propDetails.type = <<"object">> /\ TruthyObj(propDetails.props)
    THEN Returned(IF TruthyStr(propDetails.typeName)
                  THEN CodeSpan(propDetails.typeName[1])
                  ELSE CodeSpan(<<"object">>))
    ELSE IF propDetails.type = <<"function">>
    THEN Returned(CodeSpan(<<"function">>))
    ELSE Returned(CodeSpan(propDetails.type))

\* The Default cell: a truthiness test of defaultValue.
DefaultCell(propDetails) ==
    IF TruthyStr(propDetails.defaultValue)
    THEN CodeSpan(propDetails.defaultValue[1])
    ELSE <<>>

OptionalCell(propDetails) ==
    IF propDetails.optional THEN <<CHECK_MARK>> ELSE <<CROSS_MARK>>

\* One iteration of the loop over Object.entries(component.props).
PropRow(entry) ==
    LET type == formatPropType(entry.details) IN
    IF type.threw THEN Thrown
    ELSE Returned(<<"| ">> \o CodeSpan(entry.name) \o <<" | ">> \o type.value
                  \o <<" | ">> \o OptionalCell(entry.details) \o <<" | ">>
                  \o DefaultCell(entry.details) \o <<" |\n">>)

RECURSIVE PropRows(_)
PropRows(entries) ==
    IF entries = <<>> THEN Returned(<<>>)
    ELSE LET row == PropRow(Head(entries)) IN
         IF row.threw THEN Thrown
         ELSE LET rest == PropRows(Tail(entries)) IN
              IF rest.threw THEN Thrown
              ELSE Returned(row.value \o rest.value)

TABLE_HEAD == <<"| Prop | Type | Optional | Default |\n",
                "|------|------|----------|--------|\n">>

NO_PROPS == <<"*No props*\n\n">>

NO_COMPONENTS == <<"**No components found**">>

\* One iteration of the loop over analysisResult.components; reading a
\* property of a null component throws.
ComponentSection(component) ==
    IF component.isNull THEN Thrown
    ELSE LET head == <<"## ">> \o component.name \o <<"\n\n">>
                     \o (IF TruthyStr(component.wrapperFn)
                         THEN <<"*Wrapped with: ">> \o component.wrapperFn[1]
                              \o <<"*\n\n">>
                         ELSE <<>>)
                     \o <<"### Props\n\n">>
         IN IF ~TruthyObj(component.props) \/ Len(component.props[1]) = 0
            THEN Returned(head \o NO_PROPS)
            ELSE LET rows == PropRows(component.props[1]) IN
                 IF rows.threw THEN Thrown
                 ELSE Returned(head \o TABLE_HEAD \o rows.value \o <<"\n">>)

RECURSIVE ComponentSections(_)
ComponentSections(components) ==
    IF components = <<>> THEN Returned(<<>>)
    ELSE LET sec == ComponentSection(Head(components)) IN
         IF sec.threw THEN Thrown
         ELSE LET rest == ComponentSections(Tail(components)) IN
              IF rest.threw THEN Thrown
              ELSE Returned(sec.value \o rest.value)

\* The guard with length <= 1 for length === 0.
generateComponentMarkdownOffByOne(analysisResult) ==
    IF analysisResult.isNull
       \/ ~TruthyObj(analysisResult.components)
       \/ Len(analysisResult.components[1]) <= 1
    THEN Returned(NO_COMPONENTS)
    ELSE ComponentSections(analysisResult.components[1])

generateComponentMarkdown(analysisResult) ==
    IF analysisResult.isNull
       \/ ~TruthyObj(analysisResult.components)
       \/ Len(analysisResult.components[1]) = 0
    THEN Returned(NO_COMPONENTS)
    ELSE ComponentSections(analysisResult.components[1])

----------------------------------------------------------------------------
(* The inputs of one tool call *)

ToolNames == {"analyze-react", "analyze-project", "list-projects"}

\* request.params.arguments, with the two fields the handler reads.
Arguments(files, projectName) == [files |-> files, projectName |-> projectName]

Request(name, arguments) == [name |-> name, arguments |-> arguments]

\* projectName strings, each as its "/"-separated segments: "", "p", "..",
\* ".git", ".cache", "nope", "p/src", "q", "lnk".
ProjectNames ==
    { <<>>, << <<"p">> >>, << DOTDOT >>, << Hidden("git") >>,
      << Hidden("cache") >>, << <<"nope">> >>, << <<"p">>, <<"src">> >>,
      << <<"q">> >>, << <<"lnk">> >> }

Requests ==
    { Request("analyze-project", a) :
        a \in {None} \cup { Some(Arguments(None, pn)) :
                            pn \in {None} \cup { Some(n) : n \in ProjectNames } } }
    \cup { Request("analyze-react", a) :
        a \in { None, Some(Arguments(None, None)),
                Some(Arguments(Some(<<"source">>), None)) } }
    \cup { Request("list-projects", a) :
        a \in { None, Some(Arguments(None, None)) } }
    \cup { Request("no-such-tool", None) }

\* What reading a file and running the analyzer on its text gives.
Outcome(readFails, throws, value) ==
    [readFails |-> readFails, throws |-> throws, value |-> value]

NoProps == Component(<<"Btn">>, None, Some(<<>>))

\* The read fails; the analyzer throws; it returns null, an object without
\* components, no component, one component without props, a null component.
Outcomes ==
    { Outcome(TRUE, FALSE, NullAnalysis),
      Outcome(FALSE, TRUE, NullAnalysis),
      Outcome(FALSE, FALSE, NullAnalysis),
      Outcome(FALSE, FALSE, Analysis(None)),
      Outcome(FALSE, FALSE, Analysis(Some(<<>>))),
      Outcome(FALSE, FALSE, Analysis(Some(<<NoProps>>))),
      Outcome(FALSE, FALSE, Analysis(Some(<<NullComponent>>))) }

\* The handler's result: a tool result, or the error it raised.
ToolResult(v) == [error |-> "none", value |-> v]

Raised(e) == [error |-> e, value |-> <<>>]

NoRender == [types |-> <<>>, doc |-> Returned(<<>>)]

Init ==
    /\ fs \in FileSystems
    /\ unlistable \in SUBSET UnlistableCandidates
    /\ request \in Requests
    /\ pc = "handle"
    /\ folderPath = <<>>
    /\ stack = <<>>
    /\ reactFiles = <<>>
    /\ listed = <<>>
    /\ fileIdx = 0
    /\ markdown = <<>>
    /\ analyzed = <<>>
    /\ outcomes = <<>>
    /\ result = ToolResult(<<>>)
    /\ descriptor = NullAnalysis
    /\ rendered = NoRender

----------------------------------------------------------------------------
(* listProjects *)

\* The filter without its test of the hidden-entry marker.
KeepProjectHidden(entry) == IsDirectory(entry)

KeepProject(entry) == IsDirectory(entry) /\ ~StartsWith(entry.name, DOT)

RECURSIVE MapName(_)
MapName(entries) ==
    IF entries = <<>> THEN <<>>
    ELSE <<Head(entries).name>> \o MapName(Tail(entries))

\* The value listProjects returns: the filtered names, or [] when the listing
\* throws.
listProjects ==
    LET entries == ReaddirSync(PROJECT_ROOT) IN
    IF entries.threw THEN <<>>
    ELSE MapName(SelectSeq(entries.value, KeepProject))

----------------------------------------------------------------------------
(* listReactFiles and its inner scanDirectory *)

\* A call of scanDirectory: before readdirSync (entered = FALSE), then in the
\* loop at entry i.
Frame(directory) ==
    [directory |-> directory, entries |-> <<>>, i |-> 0, entered |-> FALSE]

Top == stack[Len(stack)]

Pop(stk) == SubSeq(stk, 1, Len(stk) - 1)

\* A catch around the whole scan instead of one directory: every call returns.
CatchScanErrorAbort(stk) == <<>>

\* The catch of scanDirectory: the call that failed returns.
CatchScanError(stk) == Pop(stk)

IsReactFile(entry) ==
    IsFile(entry) /\ (EndsWith(entry.name, JSX) \/ EndsWith(entry.name, TSX))

\* unshift instead of push.
PushFileFront(files, fullPath) == <<fullPath>> \o files

PushFile(files, fullPath) == Append(files, fullPath)

\* The loop moves to the next entry.
Advance(frame) == [frame EXCEPT !.i = frame.i + 1]

ReplaceTop(stk, frame) == [stk EXCEPT ![Len(stk)] = frame]

docVars == <<fileIdx, markdown, analyzed, outcomes>>

renderVars == <<descriptor, rendered>>

envVars == <<fs, unlistable, request>>

\* scanDirectory, line 36: fs.readdirSync, and the catch when it throws.
ScanReaddir ==
    /\ pc = "scan" /\ stack # <<>> /\ ~Top.entered
    /\ listed' = Append(listed, Top.directory)
    /\ LET entries == ReaddirSync(Top.directory) IN
       stack' = IF entries.threw THEN CatchScanError(stack)
                ELSE ReplaceTop(stack, [Top EXCEPT !.entries = entries.value,
                                                   !.i = 1, !.entered = TRUE])
    /\ UNCHANGED <<envVars, pc, folderPath, reactFiles, docVars, result,
                   renderVars>>

\* scanDirectory, lines 38-49: one entry of the loop.
ScanEntry ==
    /\ pc = "scan" /\ stack # <<>> /\ Top.entered /\ Top.i <= Len(Top.entries)
    /\ LET entry == Top.entries[Top.i]
           fullPath == PathJoin(Top.directory, <<entry.name>>)
       IN IF IsDirectory(entry)
          THEN /\ stack' = Append(ReplaceTop(stack, Advance(Top)), Frame(fullPath))
               /\ UNCHANGED reactFiles
          ELSE IF IsReactFile(entry)
          THEN /\ reactFiles' = PushFile(reactFiles, fullPath)
               /\ stack' = ReplaceTop(stack, Advance(Top))
          ELSE /\ stack' = ReplaceTop(stack, Advance(Top))
               /\ UNCHANGED reactFiles
    /\ UNCHANGED <<envVars, pc, folderPath, listed, docVars, result, renderVars>>

\* scanDirectory returns after its last entry.
ScanReturn ==
    /\ pc = "scan" /\ stack # <<>> /\ Top.entered /\ Top.i > Len(Top.entries)
    /\ stack' = Pop(stack)
    /\ UNCHANGED <<envVars, pc, folderPath, reactFiles, listed, docVars, result,
                   renderVars>>

----------------------------------------------------------------------------
(* analyzeReactFileContents and generateProjectDocs *)

\* Every failure of the read or of the analyzer is caught and gives null.
analyzeReactFileContents(outcome) ==
    IF outcome.readFails \/ outcome.throws THEN NullAnalysis ELSE outcome.value

FILE_HEAD == "\n---\n\n# File: "

ERROR_ANALYZING == <<"*Error analyzing file*\n\n">>

FileHeading(filePath) ==
    <<FILE_HEAD>> \o PathText(PathRelative(PROJECT_ROOT, filePath)) \o <<"\n\n">>

ProjectNameText == PathText(request.arguments[1].projectName[1])

EmptyDocument == <<"# ">> \o ProjectNameText \o <<"\n\nNo React components found.">>

DocumentHead == <<"# ">> \o ProjectNameText \o <<" Components\n\n">>

NextFile(idx) == idx + 1

\* generateProjectDocs, lines 135-141: listReactFiles has returned.
DocsStart ==
    /\ pc = "scan" /\ stack = <<>>
    /\ IF Len(reactFiles) = 0
       THEN /\ result' = ToolResult(EmptyDocument)
            /\ pc' = "done"
            /\ UNCHANGED <<markdown, fileIdx>>
       ELSE /\ markdown' = DocumentHead
            /\ fileIdx' = 1
            /\ pc' = "docs"
            /\ UNCHANGED result
    /\ UNCHANGED <<envVars, folderPath, stack, reactFiles, listed, analyzed,
                   outcomes, renderVars>>

\* generateProjectDocs, lines 143-153: one file of the loop.  A throw of
\* generateComponentMarkdown is caught nowhere and leaves the handler.
DocsFile ==
    /\ pc = "docs" /\ fileIdx <= Len(reactFiles)
    /\ \E outcome \in Outcomes :
         LET filePath == reactFiles[fileIdx]
             analysis == analyzeReactFileContents(outcome)
             section == generateComponentMarkdown(analysis)
         IN /\ analyzed' = Append(analyzed, filePath)
            /\ outcomes' = Append(outcomes, outcome)
            /\ IF analysis.isNull
               THEN /\ markdown' = markdown \o FileHeading(filePath)
                                            \o ERROR_ANALYZING
                    /\ fileIdx' = NextFile(fileIdx)
                    /\ UNCHANGED <<pc, result>>
               ELSE IF section.threw
               THEN /\ result' = Raised("TypeError")
                    /\ pc' = "done"
                    /\ markdown' = markdown \o FileHeading(filePath)
                    /\ UNCHANGED fileIdx
               ELSE /\ markdown' = markdown \o FileHeading(filePath)
                                            \o section.value
                    /\ fileIdx' = NextFile(fileIdx)
                    /\ UNCHANGED <<pc, result>>
    /\ UNCHANGED <<envVars, folderPath, stack, reactFiles, listed, renderVars>>

\* generateProjectDocs returns the document; the handler returns it.
DocsReturn ==
    /\ pc = "docs" /\ fileIdx > Len(reactFiles)
    /\ result' = ToolResult(markdown)
    /\ pc' = "done"
    /\ UNCHANGED <<envVars, folderPath, stack, reactFiles, listed, docVars,
                   renderVars>>

----------------------------------------------------------------------------
(* The CallToolRequestSchema handler *)

scanVars == <<folderPath, stack, reactFiles, listed>>

\* analyze-react: reading .files of missing arguments throws; a throw of the
\* analyzer is caught nowhere.
HandleAnalyzeReact ==
    /\ pc = "handle" /\ request.name = "analyze-react"
    /\ IF request.arguments = None
       THEN result' = Raised("TypeError")
       ELSE \E outcome \in Outcomes :
              /\ ~outcome.readFails
              /\ result' = IF outcome.throws THEN Raised("AnalyzerError")
                           ELSE ToolResult(outcome.value)
    /\ pc' = "done"
    /\ UNCHANGED <<envVars, scanVars, docVars, renderVars>>

\* analyze-project up to the first call of scanDirectory: reading
\* .projectName of missing arguments throws, and so does path.join of an
\* undefined projectName.
HandleAnalyzeProject ==
    /\ pc = "handle" /\ request.name = "analyze-project"
    /\ IF request.arguments = None \/ request.arguments[1].projectName = None
       THEN /\ result' = Raised("TypeError")
            /\ pc' = "done"
            /\ UNCHANGED <<folderPath, stack>>
       ELSE /\ folderPath' = PathJoin(PROJECT_ROOT,
                                      request.arguments[1].projectName[1])
            /\ stack' = <<Frame(folderPath')>>
            /\ pc' = "scan"
            /\ UNCHANGED result
    /\ UNCHANGED <<envVars, reactFiles, listed, docVars, renderVars>>

HandleListProjects ==
    /\ pc = "handle" /\ request.name = "list-projects"
    /\ listed' = Append(listed, PROJECT_ROOT)
    /\ result' = ToolResult(listProjects)
    /\ pc' = "done"
    /\ UNCHANGED <<envVars, folderPath, stack, reactFiles, docVars, renderVars>>

\* No tool of that name: McpError(ErrorCode.MethodNotFound).
HandleUnknownTool ==
    /\ pc = "handle" /\ request.name \notin ToolNames
    /\ result' = Raised("MethodNotFound")
    /\ pc' = "done"
    /\ UNCHANGED <<envVars, scanVars, docVars, renderVars>>

Next ==
    \/ HandleAnalyzeReact
    \/ HandleAnalyzeProject
    \/ HandleListProjects
    \/ HandleUnknownTool
    \/ ScanReaddir
    \/ ScanEntry
    \/ ScanReturn
    \/ DocsStart
    \/ DocsFile
    \/ DocsReturn

Spec == Init /\ [][Next]_vars

\* The handler is one synchronous call: it runs until it returns or throws.
FairSpec == Spec /\ WF_vars(Next)

----------------------------------------------------------------------------
(* Vocabulary of the properties *)

ToSet(s) == { s[i] : i \in 1..Len(s) }

NoDuplicates(s) == \A i, j \in 1..Len(s) : i # j => s[i] # s[j]

\* The places where sub occurs in s.
Positions(sub, s) ==
    { k \in 1..Len(s) : k + Len(sub) - 1 <= Len(s)
                        /\ SubSeq(s, k, k + Len(sub) - 1) = sub }

IsProjectCall ==
    /\ request.name = "analyze-project"
    /\ request.arguments # None
    /\ request.arguments[1].projectName # None

\* listReactFiles has returned.
ScanOver == IsProjectCall /\ listed # <<>> /\ stack = <<>>

\* generateProjectDocs has returned a document.
DocumentReturned == IsProjectCall /\ pc = "done" /\ result.error = "none"

HasReactName(n) ==
    Len(n) >= 2 /\ n[Len(n) - 1] = "." /\ n[Len(n)] \in {"jsx", "tsx"}

\* The kind of the entry a path names, or "missing".
KindOf(path) ==
    LET parent == Resolve(SubSeq(path, 1, Len(path) - 1)) IN
    IF path = <<>> THEN "dir"
    ELSE IF parent = None THEN "missing"
    ELSE LET es == Lookup(parent[1], path[Len(path)]) IN
         IF es = <<>> THEN "missing" ELSE es[1].kind

\* The directories under r that are reached from r through directory entries
\* and listable directories only, r and the directory itself included.
ListableBelow(r) ==
    { d \in DOMAIN Listing :
        /\ IsPrefix(r, d)
        /\ \A k \in Len(r)..Len(d) : SubSeq(d, 1, k) \notin unlistable
        /\ \A k \in (Len(r) + 1)..Len(d) :
             \E i \in 1..Len(Listing[SubSeq(d, 1, k - 1)]) :
                LET e == Listing[SubSeq(d, 1, k - 1)][i] IN
                e.name = d[k] /\ e.kind = "dir" }

\* The react files of those directories, as paths under the scan root.
ExpectedFiles ==
    LET r == Resolve(folderPath) IN
    IF r = None THEN {}
    ELSE UNION { { folderPath \o SubSeq(d, Len(r[1]) + 1, Len(d)) \o <<Listing[d][i].name>> :
                   i \in { j \in 1..Len(Listing[d]) :
                             /\ Listing[d][j].kind = "file"
                             /\ HasReactName(Listing[d][j].name) } } :
                 d \in ListableBelow(r[1]) }

\* C2: when the scan returns, the files collected are exactly the regular
\* files named *.jsx or *.tsx that are reached from the scan root through
\* listable directories, each once; a directory that cannot be listed removes
\* only the files under it, and nothing is raised while scanning.
C2_ScanExact ==
    /\ ScanOver => /\ ToSet(reactFiles) = ExpectedFiles
                   /\ NoDuplicates(reactFiles)
    /\ pc = "scan" => result.error = "none"

\* A scan that met an unlistable directory after collecting a file, and
\* collected another file of a sibling after it.
C2_Witness ==
    /\ ScanOver
    /\ \E i \in 2..Len(listed) :
          /\ Resolve(listed[i]) # None
          /\ Resolve(listed[i])[1] \in unlistable
          /\ \E a, b \in 1..Len(reactFiles) :
                /\ a < b
                /\ IsPrefix(SubSeq(listed[i], 1, Len(listed[i]) - 1), reactFiles[a])
                /\ IsPrefix(SubSeq(listed[i], 1, Len(listed[i]) - 1), reactFiles[b])

----------------------------------------------------------------------------
(* Order of the scan and of the document *)

RECURSIVE DepthFirst(_)
\* The react files under a directory in depth-first order: each entry in
\* enumeration order, a subdirectory's files at the place of the
\* subdirectory; nothing for a directory that cannot be listed.
DepthFirst(directory) ==
    LET entries == ReaddirSync(directory) IN
    IF entries.threw THEN <<>>
    ELSE Flatten([i \in 1..Len(entries.value) |->
            LET e == entries.value[i] IN
            IF e.kind = "dir" THEN DepthFirst(Append(directory, e.name))
            ELSE IF e.kind = "file" /\ HasReactName(e.name)
                 THEN << Append(directory, e.name) >>
                 ELSE <<>>])

RECURSIVE TakeUntil(_, _)
TakeUntil(s, atom) ==
    IF s = <<>> \/ Head(s) = atom THEN <<>>
    ELSE <<Head(s)>> \o TakeUntil(Tail(s), atom)

RECURSIVE SectionPaths(_)
\* The paths of the "File:" headings of a document, in order.
SectionPaths(doc) ==
    IF doc = <<>> THEN <<>>
    ELSE IF Head(doc) = FILE_HEAD
         THEN <<TakeUntil(Tail(doc), "\n\n")>> \o SectionPaths(Tail(doc))
         ELSE SectionPaths(Tail(doc))

\* C3: a document returned for a non-empty scan result has exactly one
\* "File:" section per scanned path, in the order of the scan, which is
\* depth-first with entries in enumeration order; the files are analyzed
\* once each, in that order.
C3_SectionsInScanOrder ==
    /\ ScanOver => reactFiles = DepthFirst(folderPath)
    /\ IsPrefix(analyzed, reactFiles)
    /\ (DocumentReturned /\ Len(reactFiles) > 0) =>
          /\ analyzed = reactFiles
          /\ SectionPaths(result.value) =
                [i \in 1..Len(reactFiles) |->
                    PathText(PathRelative(PROJECT_ROOT, reactFiles[i]))]

\* A returned document whose second section is a file of a subdirectory that
\* stands between two files of its parent.
C3_Witness ==
    /\ DocumentReturned
    /\ Len(reactFiles) >= 3
    /\ Len(reactFiles[2]) > Len(reactFiles[1])
    /\ Len(reactFiles[3]) = Len(reactFiles[1])
    /\ Len(SectionPaths(result.value)) = Len(reactFiles)

----------------------------------------------------------------------------
(* Termination of the scan *)

\* No directory is listed twice, under one name or two.
ListedOnce ==
    \A i, j \in 1..Len(listed) :
        i # j => /\ listed[i] # listed[j]
                 /\ Resolve(listed[i]) = None \/ Resolve(listed[i]) # Resolve(listed[j])

\* Below the scan root only directory entries are listed and only regular
\* files are collected.
LinksUntouched ==
    /\ \A i \in 2..Len(listed) : KindOf(listed[i]) = "dir"
    /\ \A i \in 1..Len(reactFiles) : KindOf(reactFiles[i]) = "file"

\* C9: the scan terminates on every tree, whatever directories are
\* unlistable: no directory is listed twice, an entry that is neither a
\* directory nor a regular file is neither descended into nor collected, and
\* every scan that starts returns.
C9_ScanTerminates ==
    /\ [](ListedOnce /\ LinksUntouched)
    /\ (pc = "scan") ~> (pc # "scan")

\* A scan that has returned after passing a symbolic link to one of the
\* directories it listed.
C9_Witness ==
    /\ ScanOver /\ pc # "scan"
    /\ \E i \in 1..Len(listed) :
          /\ Resolve(listed[i]) # None
          /\ \E k \in 1..Len(Listing[Resolve(listed[i])[1]]) :
                LET e == Listing[Resolve(listed[i])[1]][k] IN
                e.kind = "symlink" /\ Some(e.target) = Resolve(listed[i])

----------------------------------------------------------------------------
(* The handler's results *)

\* C1 as claimed: analyze-project with any projectName string returns a
\* document and raises nothing, whatever the analyzer gives.
C1_NeverFails == (IsProjectCall /\ pc = "done") => result.error = "none"

\* C5 as claimed: the handler raises if and only if the tool name is not
\* one of the three, and then it raises "method not found".
C5_OnlyUnknownToolRaises ==
    pc = "done" => /\ (result.error # "none") <=> (request.name \notin ToolNames)
                   /\ result.error \in {"none", "MethodNotFound"}

\* C10 as claimed: whatever the projectName, every directory listed and
\* every file read lies inside ProjectRoot.
C10_StaysInsideRoot ==
    /\ \A i \in 1..Len(listed) : IsPrefix(PROJECT_ROOT, listed[i])
    /\ \A i \in 1..Len(analyzed) : IsPrefix(PROJECT_ROOT, analyzed[i])

\* C8: list-projects returns, in listing order, exactly the names of the
\* directory entries of ProjectRoot that do not start with ".", and the
\* empty sequence, raising nothing, when ProjectRoot cannot be listed.
C8_ListProjectsExact ==
    (pc = "done" /\ request.name = "list-projects") =>
        LET L == IF PROJECT_ROOT \in unlistable THEN <<>> ELSE Listing[PROJECT_ROOT]
            kept == { j \in 1..Len(L) : L[j].kind = "dir" /\ L[j].name[1] # "." }
            v == result.value
        IN /\ result.error = "none"
           /\ Len(v) = Cardinality(kept)
           /\ \A i \in 1..Len(v) :
                \E j \in kept : /\ L[j].name = v[i]
                                /\ Cardinality({ k \in kept : k <= j }) = i

\* A listing with a hidden directory and a non-directory dropped and a
\* project kept.
C8_Witness ==
    /\ pc = "done" /\ request.name = "list-projects"
    /\ PROJECT_ROOT \notin unlistable
    /\ Len(result.value) >= 1
    /\ \E i, j \in 1..Len(Listing[PROJECT_ROOT]) :
          /\ Listing[PROJECT_ROOT][i].kind = "dir"
          /\ Listing[PROJECT_ROOT][i].name[1] = "."
          /\ Listing[PROJECT_ROOT][i].name \notin ToSet(result.value)
          /\ Listing[PROJECT_ROOT][j].kind # "dir"
          /\ Listing[PROJECT_ROOT][j].name \notin ToSet(result.value)

----------------------------------------------------------------------------
(* End to end: A.tsx with one component without props, B.jsx failing *)

\* The files named A.tsx whose analysis gave one component with no props.
AnalyzedA ==
    { i \in 1..Len(analyzed) :
        /\ Basename(analyzed[i]) = <<"A", ".", "tsx">>
        /\ ~outcomes[i].readFails /\ ~outcomes[i].throws
        /\ outcomes[i].value.components =
              Some(<< [isNull |-> FALSE, name |-> <<"Btn">>, wrapperFn |-> None,
                       props |-> Some(<<>>)] >>) }

\* The files named B.jsx on which the analyzer threw.
AnalyzedB ==
    { j \in 1..Len(analyzed) :
        Basename(analyzed[j]) = <<"B", ".", "jsx">> /\ outcomes[j].throws }

HeadingOf(i) ==
    <<"\n---\n\n# File: ">>
    \o PathText(PathRelative(PROJECT_ROOT, analyzed[i])) \o <<"\n\n">>

\* The two headings are in the document, each followed by its text, and in
\* the order of the files.
EndToEnd(textOfA) ==
    \A i \in AnalyzedA, j \in AnalyzedB :
        LET a == Positions(HeadingOf(i) \o textOfA, result.value)
            b == Positions(HeadingOf(j) \o <<"*Error analyzing file*\n\n">>,
                           result.value)
        IN /\ Cardinality(a) = 1
           /\ Cardinality(b) = 1
           /\ \A x \in a, y \in b : (x < y) <=> (i < j)

\* C4 as claimed: the heading of A.tsx is followed by "**No components
\* found**".
C4_NoComponentsAfterA ==
    DocumentReturned => EndToEnd(<<"**No components found**">>)

\* C4 amended: the heading of A.tsx is followed by the section of its
\* component, whose Props part is "*No props*"; the heading of B.jsx by
\* "*Error analyzing file*"; in file order.
C4_NoPropsAfterA ==
    DocumentReturned =>
        EndToEnd(<<"## ", "Btn", "\n\n", "### Props\n\n", "*No props*\n\n">>)

\* A returned document for a project holding both files, each with the
\* outcome of the claim.
C4_Witness == DocumentReturned /\ AnalyzedA # {} /\ AnalyzedB # {}

----------------------------------------------------------------------------
(* The renderer and the type formatter on their own: the analysis is drawn  *)
(* from a bounded set, then its prop types are formatted and it is rendered *)

MaxNest == 2

MaxProps == 2

\* Descriptors that are not arrays of something: primitives, a function,
\* objects with props (unnamed, with an empty name, named), and "array" and
\* "object" without their elementType and props.
LeafDescriptors ==
    { Details(<<"string">>, FALSE, None, None, None, None),
      Details(<<"function">>, FALSE, None, None, None, None),
      Details(<<"object">>, FALSE, None, None, Some(<<>>), None),
      Details(<<"object">>, FALSE, None, None, Some(<<>>), Some(<<>>)),
      Details(<<"object">>, FALSE, None, None, Some(<<>>), Some(<<"Foo">>)),
      Details(<<"object">>, FALSE, None, None, None, Some(<<"Foo">>)),
      Details(<<"array">>, FALSE, None, None, None, None) }

RECURSIVE Nested(_)
\* The descriptors of at most n array types around a leaf.
Nested(n) ==
    IF n = 0 THEN LeafDescriptors
    ELSE LeafDescriptors
         \cup { Details(<<"array">>, FALSE, None, Some(d), None, None) :
                d \in Nested(n - 1) }

DefaultValues == { None, Some(<<>>), Some(<<"x">>) }

PropDetails ==
    { [d EXCEPT !.optional = o, !.defaultValue = v] :
        d \in Nested(MaxNest), o \in BOOLEAN, v \in DefaultValues }

SmallPropDetails ==
    { [d EXCEPT !.optional = o, !.defaultValue = v] :
        d \in { Details(<<"string">>, FALSE, None, None, None, None) },
        o \in BOOLEAN, v \in DefaultValues }

\* The i-th prop name: "a", "aa", ...
PropName(i) == [j \in 1..i |-> "a"]

PropMaps ==
    { << PropEntry(PropName(1), d) >> : d \in PropDetails }
    \cup UNION { { [i \in 1..n |-> PropEntry(PropName(i), f[i])] :
                   f \in [1..n -> SmallPropDetails] } : n \in 2..MaxProps }

RenderInputs ==
    { Analysis(Some(<< Component(<<"Btn">>, w, Some(m)) >>)) :
        w \in { None, Some(<<"memo">>) }, m \in PropMaps }

RenderInit ==
    /\ fs = "A"
    /\ unlistable = {}
    /\ request = Request("analyze-react", Some(Arguments(Some(<<"source">>), None)))
    /\ pc = "input"
    /\ folderPath = <<>>
    /\ stack = <<>>
    /\ reactFiles = <<>>
    /\ listed = <<>>
    /\ fileIdx = 0
    /\ markdown = <<>>
    /\ analyzed = <<>>
    /\ outcomes = <<>>
    /\ result = ToolResult(<<>>)
    /\ descriptor \in RenderInputs
    /\ rendered = NoRender

\* The props of the component under rendering, in iteration order.
InputProps == descriptor.components[1][1].props[1]

\* formatPropType on each prop of the component.
FormatStep ==
    /\ pc = "input"
    /\ rendered' = [rendered EXCEPT !.types =
                       [i \in 1..Len(InputProps) |->
                           formatPropType(InputProps[i].details)]]
    /\ pc' = "formatted"
    /\ UNCHANGED <<envVars, scanVars, docVars, result, descriptor>>

\* generateComponentMarkdown on the analysis.
RenderStep ==
    /\ pc = "formatted"
    /\ rendered' = [rendered EXCEPT !.doc = generateComponentMarkdown(descriptor)]
    /\ pc' = "rendered"
    /\ UNCHANGED <<envVars, scanVars, docVars, result, descriptor>>

RenderNext == FormatStep \/ RenderStep

RenderSpec == RenderInit /\ [][RenderNext]_vars

RECURSIVE ArrayDepth(_)
\* The number of array types with an element type around the leaf.
ArrayDepth(d) ==
    IF d.type = <<"array">> /\ d.elementType # None
    THEN 1 + ArrayDepth(d.elementType[1])
    ELSE 0

RECURSIVE LeafOf(_)
LeafOf(d) ==
    IF d.type = <<"array">> /\ d.elementType # None
    THEN LeafOf(d.elementType[1])
    ELSE d

\* The token of a leaf by the rules in their order: an object with props is
\* its type name (when it has a non-empty one) or "object", a function is
\* "function", anything else its type name, each as a code token.
LeafToken(d) ==
    IF d.type = <<"object">> /\ d.props # None
    THEN IF d.typeName # None /\ d.typeName # Some(<<>>)
         THEN <<"BACKTICK">> \o d.typeName[1] \o <<"BACKTICK">>
         ELSE <<"BACKTICK", "object", "BACKTICK">>
    ELSE IF d.type = <<"function">>
    THEN <<"BACKTICK", "function", "BACKTICK">>
    ELSE <<"BACKTICK">> \o d.type \o <<"BACKTICK">>

\* n times "array<", the token, n times ">".
Wrapped(n, token) ==
    Flatten([i \in 1..n |-> <<"array", "<">>]) \o token \o [i \in 1..n |-> ">"]

\* C6: formatPropType returns for every descriptor, and n nested array
\* types around a leaf format to exactly n "array<" ... ">" wrappings around
\* the leaf's token, the token chosen by the rules in their order.
C6_FormatWrapsArrays ==
    pc \in {"formatted", "rendered"} =>
        /\ Len(rendered.types) = Len(InputProps)
        /\ \A i \in 1..Len(InputProps) :
              /\ ~rendered.types[i].threw
              /\ rendered.types[i].value =
                    Wrapped(ArrayDepth(InputProps[i].details),
                            LeafToken(LeafOf(InputProps[i].details)))

\* A formatted prop of at least two nested arrays around a named object.
C6_Witness ==
    /\ pc = "formatted"
    /\ ArrayDepth(InputProps[1].details) >= 2
    /\ LeafOf(InputProps[1].details).typeName = Some(<<"Foo">>)
    /\ LeafOf(InputProps[1].details).props # None

\* The table the claim describes: one row per prop in iteration order, the
\* Default cell a code span of defaultValue when it is present, empty when
\* it is absent.
ClaimedRow(entry, type) ==
    <<"| ", "BACKTICK">> \o entry.name \o <<"BACKTICK", " | ">> \o type
    \o <<" | ", IF entry.details.optional THEN "CHECK" ELSE "CROSS", " | ">>
    \o (IF entry.details.defaultValue # None
        THEN <<"BACKTICK">> \o entry.details.defaultValue[1] \o <<"BACKTICK">>
        ELSE <<>>)
    \o <<" |\n">>

ClaimedSection ==
    <<"## ">> \o descriptor.components[1][1].name \o <<"\n\n">>
    \o (IF descriptor.components[1][1].wrapperFn # None
        THEN <<"*Wrapped with: ">> \o descriptor.components[1][1].wrapperFn[1]
             \o <<"*\n\n">>
        ELSE <<>>)
    \o <<"### Props\n\n">>
    \o <<"| Prop | Type | Optional | Default |\n",
         "|------|------|----------|--------|\n">>
    \o Flatten([i \in 1..Len(InputProps) |->
                   ClaimedRow(InputProps[i], rendered.types[i].value)])
    \o <<"\n">>

\* C7 as claimed: for a non-empty prop map the section is the 4-column
\* table with one row per prop in iteration order, a check or a cross in
\* Optional, and in Default the code span of defaultValue whenever it is
\* present, the empty string included, and nothing exactly when it is absent.
C7_DefaultCellWheneverPresent ==
    pc = "rendered" => /\ ~rendered.doc.threw
                       /\ rendered.doc.value = ClaimedSection

====
